---- MODULE Spec2Model ----
(***************************************************************************)
(* Model of the hexmap library: the hexagon grid (src/hexmap/grid.py),     *)
(* its territory-graph extraction, the supply-centre selector and the ring  *)
(* builder (src/hexmap/cli.py), and the standalone script (src/hex.py).    *)
(***************************************************************************)
EXTENDS Integers, Sequences, FiniteSets, TLC

VARIABLES
    hexagons,          \* HexagonGrid.hexagons (list of Hexagon)
    hex_connections,   \* HexagonGrid.hex_connections (list of 4-tuples)
    call,              \* the operation last invoked, with its arguments
    outcome,           \* how that operation ended: a return value or an exception
    pc,                \* position inside _create_supply_territories_algo
    territory_graph,   \* the nx.Graph last extracted
    all_territory_ids, \* list(territory_graph.nodes())
    attempt,           \* loop variable of `for attempt in range(max_retries)`
    available_territories,
    selected_supply_centers,
    coin_flips,        \* calls of random.choice([True, False]) in grid.py so far
    random_picks       \* draws from the random module in cli.py so far

vars == <<hexagons, hex_connections, call, outcome, pc, territory_graph,
          all_territory_ids, attempt, available_territories,
          selected_supply_centers, coin_flips, random_picks>>

gridVars == <<hexagons, hex_connections>>
algoVars == <<pc, all_territory_ids, attempt, available_territories,
              selected_supply_centers, random_picks>>

----------------------------------------------------------------------------
(* Bounds of the model *)

NumHexIds == 2        \* hexagon identities offered to add_hexagon: 1..NumHexIds
MaxHexagons == 2      \* add_hexagon is offered while the grid holds fewer hexagons
MaxSideInput == 1     \* sides offered to add_hexagon: 0..MaxSideInput
MaxChain == 2         \* hexagons in the grids handed to the selector
MaxSupply == 3        \* largest num_supply requested from the selector
MaxRotation == 1      \* rotations drawn for the hexagons of a ring: 0..MaxRotation

(* Program constants *)

NumSides == 6         \* HexSide has members 0..5
max_retries == 5      \* default of _create_supply_territories_algo

None == -1            \* Python's None, for an omitted optional argument

HexSide == 0..(NumSides - 1)
HexIds == 1..NumHexIds
SideInputs == 0..MaxSideInput

Range(s) == {s[i] : i \in DOMAIN s}

Min(S) == CHOOSE x \in S : \A y \in S : x <= y

\* str(uuid): the canonical text of an identifier, a value of another type
\* than the identifier itself.
str(u) == <<u>>

----------------------------------------------------------------------------
(* models.py: Territory, Hexagon *)

Territory(tid, sides) == [territory_id |-> tid, touching_sides |-> sides]

Hexagon(hid, terrs, edges) ==
    [hex_id |-> hid, territories |-> terrs, internal_edges |-> edges, rotation |-> 0]

\* uuid4() for the k-th territory created for hexagon hid: fresh and unique.
TerritoryId(hid, k) == hid * 10 + k

\* Variant: the rotation is taken off the direction.
get_side_by_direction_backwards(hexagon, direction) == (direction - hexagon.rotation) % 6

get_side_by_direction(hexagon, direction) == (direction + hexagon.rotation) % 6

\* hexagon.rotation = r
with_rotation(hexagon, r) == [hexagon EXCEPT !.rotation = r]

----------------------------------------------------------------------------
(* archetypes.py: HexagonArchetypes *)

create_triple(hid) ==
    LET territory_1 == Territory(TerritoryId(hid, 1), {0, 1})
        territory_2 == Territory(TerritoryId(hid, 2), {2, 3})
        territory_3 == Territory(TerritoryId(hid, 3), {4, 5})
    IN Hexagon(hid, <<territory_1, territory_2, territory_3>>,
               << <<territory_1, territory_2>>,
                  <<territory_2, territory_3>>,
                  <<territory_1, territory_3>> >>)

create_diamond(hid) ==
    LET territory_1 == Territory(TerritoryId(hid, 1), {0, 1})
        territory_2 == Territory(TerritoryId(hid, 2), {5})
        territory_3 == Territory(TerritoryId(hid, 3), {2})
        territory_4 == Territory(TerritoryId(hid, 4), {3, 4})
    IN Hexagon(hid, <<territory_1, territory_2, territory_3, territory_4>>,
               << <<territory_1, territory_2>>,
                  <<territory_1, territory_3>>,
                  <<territory_2, territory_3>>,
                  <<territory_4, territory_2>>,
                  <<territory_4, territory_3>> >>)

create_single(hid) ==
    LET territory_1 == Territory(TerritoryId(hid, 1), {0, 1, 2, 3, 4, 5})
    IN Hexagon(hid, <<territory_1>>, <<>>)

\* Variant: the fourth territory touches side 5 as well.
create_five_overlapping(hid) ==
    LET territory_1 == Territory(TerritoryId(hid, 1), {0})
        territory_2 == Territory(TerritoryId(hid, 2), {1})
        territory_3 == Territory(TerritoryId(hid, 3), {2})
        territory_4 == Territory(TerritoryId(hid, 4), {3, 4, 5})
        territory_5 == Territory(TerritoryId(hid, 5), {5})
    IN Hexagon(hid, <<territory_1, territory_2, territory_3, territory_4, territory_5>>,
               << <<territory_1, territory_2>>,
                  <<territory_1, territory_5>>,
                  <<territory_1, territory_3>>,
                  <<territory_2, territory_3>>,
                  <<territory_4, territory_3>>,
                  <<territory_4, territory_5>>,
                  <<territory_3, territory_5>> >>)

create_five(hid) ==
    LET territory_1 == Territory(TerritoryId(hid, 1), {0})
        territory_2 == Territory(TerritoryId(hid, 2), {1})
        territory_3 == Territory(TerritoryId(hid, 3), {2})
        territory_4 == Territory(TerritoryId(hid, 4), {3, 4})
        territory_5 == Territory(TerritoryId(hid, 5), {5})
    IN Hexagon(hid, <<territory_1, territory_2, territory_3, territory_4, territory_5>>,
               << <<territory_1, territory_2>>,
                  <<territory_1, territory_5>>,
                  <<territory_1, territory_3>>,
                  <<territory_2, territory_3>>,
                  <<territory_4, territory_3>>,
                  <<territory_4, territory_5>>,
                  <<territory_3, territory_5>> >>)

\* create_random; choice is what random.choice(['triple', 'diamond', 'five'])
\* returns.
create_random(hid, choice) ==
    IF choice = "triple" THEN create_triple(hid)
    ELSE IF choice = "diamond" THEN create_diamond(hid)
    ELSE create_five(hid)

RandomChoices == {"triple", "diamond", "five"}

\* A hexagon built directly with the Hexagon constructor, which validates
\* nothing: three territories of three sides each, so that sides 1, 3 and 5
\* are each touched by two territories.
HandBuiltOverlap(hid) ==
    LET territory_1 == Territory(TerritoryId(hid, 1), {5, 0, 1})
        territory_2 == Territory(TerritoryId(hid, 2), {1, 2, 3})
        territory_3 == Territory(TerritoryId(hid, 3), {3, 4, 5})
    IN Hexagon(hid, <<territory_1, territory_2, territory_3>>,
               << <<territory_1, territory_2>>,
                  <<territory_2, territory_3>>,
                  <<territory_1, territory_3>> >>)

\* Another hexagon built directly with the constructor: side 1 is touched by
\* three territories (one before it, one on it alone, one after it), side 3
\* by two, of which one touches nothing else.
HandBuiltCrowded(hid) ==
    LET territory_1 == Territory(TerritoryId(hid, 1), {5, 0, 1})
        territory_2 == Territory(TerritoryId(hid, 2), {1})
        territory_3 == Territory(TerritoryId(hid, 3), {1, 2})
        territory_4 == Territory(TerritoryId(hid, 4), {3, 4})
        territory_5 == Territory(TerritoryId(hid, 5), {3})
    IN Hexagon(hid, <<territory_1, territory_2, territory_3, territory_4, territory_5>>,
               << <<territory_1, territory_2>>,
                  <<territory_2, territory_3>>,
                  <<territory_3, territory_5>>,
                  <<territory_4, territory_5>>,
                  <<territory_1, territory_4>> >>)

ArchetypeNames == {"single", "triple", "diamond", "five", "overlap", "crowded"}

MakeHexagon(name, hid) ==
    CASE name = "single"  -> create_single(hid)
      [] name = "triple"  -> create_triple(hid)
      [] name = "diamond" -> create_diamond(hid)
      [] name = "five"    -> create_five(hid)
      [] name = "overlap" -> HandBuiltOverlap(hid)
      [] name = "crowded" -> HandBuiltCrowded(hid)

----------------------------------------------------------------------------
(* grid.py: HexagonGrid *)

\* How a call ends: `return v`, or `raise exc(...)` with what the message holds
Return(v) == [kind |-> "return", value |-> v]
Raise(exc, args) == [kind |-> "raise", exc |-> exc, args |-> args]

\* Variant: only the first (hexagon, side) of a tuple is compared.
is_side_occupied_first_position(conns, hex_id, side) ==
    \E i \in DOMAIN conns : conns[i][1] = hex_id /\ conns[i][2] = side

is_side_occupied(conns, hex_id, side) ==
    \E i \in DOMAIN conns :
        \/ (conns[i][1] = hex_id /\ conns[i][2] = side)
        \/ (conns[i][3] = hex_id /\ conns[i][4] = side)

BothSidesMessage == "Must specify both sides for connection"

\* Variant: the occupancy of the target hexagon's side is not checked.
add_hexagon_target_unchecked(hexs, conns, hexagon, connect_to_hex_id, connect_my_side, connect_their_side) ==
    LET appended == Append(hexs, hexagon)
    IN  IF connect_to_hex_id = None
        THEN [hexagons |-> appended, hex_connections |-> conns, outcome |-> Return(TRUE)]
        ELSE IF connect_my_side = None \/ connect_their_side = None
        THEN [hexagons |-> appended, hex_connections |-> conns,
              outcome |-> Raise("ValueError", BothSidesMessage)]
        ELSE IF is_side_occupied(conns, hexagon.hex_id, connect_my_side)
        THEN [hexagons |-> appended, hex_connections |-> conns, outcome |-> Return(FALSE)]
        ELSE [hexagons |-> appended,
              hex_connections |-> Append(conns, <<hexagon.hex_id, connect_my_side,
                                                  connect_to_hex_id, connect_their_side>>),
              outcome |-> Return(TRUE)]

\* Variant: the hexagon is appended only once the call is known to succeed.
add_hexagon_append_last(hexs, conns, hexagon, connect_to_hex_id, connect_my_side, connect_their_side) ==
    LET appended == Append(hexs, hexagon)
    IN  IF connect_to_hex_id = None
        THEN [hexagons |-> appended, hex_connections |-> conns, outcome |-> Return(TRUE)]
        ELSE IF connect_my_side = None \/ connect_their_side = None
        THEN [hexagons |-> hexs, hex_connections |-> conns,
              outcome |-> Raise("ValueError", BothSidesMessage)]
        ELSE IF is_side_occupied(conns, hexagon.hex_id, connect_my_side)
        THEN [hexagons |-> hexs, hex_connections |-> conns, outcome |-> Return(FALSE)]
        ELSE IF is_side_occupied(conns, connect_to_hex_id, connect_their_side)
        THEN [hexagons |-> hexs, hex_connections |-> conns, outcome |-> Return(FALSE)]
        ELSE [hexagons |-> appended,
              hex_connections |-> Append(conns, <<hexagon.hex_id, connect_my_side,
                                                  connect_to_hex_id, connect_their_side>>),
              outcome |-> Return(TRUE)]

\* Variant: the usage error is raised only when both sides are omitted.
add_hexagon_one_side_enough(hexs, conns, hexagon, connect_to_hex_id, connect_my_side, connect_their_side) ==
    LET appended == Append(hexs, hexagon)
    IN  IF connect_to_hex_id = None
        THEN [hexagons |-> appended, hex_connections |-> conns, outcome |-> Return(TRUE)]
        ELSE IF connect_my_side = None /\ connect_their_side = None
        THEN [hexagons |-> appended, hex_connections |-> conns,
              outcome |-> Raise("ValueError", BothSidesMessage)]
        ELSE IF is_side_occupied(conns, hexagon.hex_id, connect_my_side)
        THEN [hexagons |-> appended, hex_connections |-> conns, outcome |-> Return(FALSE)]
        ELSE IF is_side_occupied(conns, connect_to_hex_id, connect_their_side)
        THEN [hexagons |-> appended, hex_connections |-> conns, outcome |-> Return(FALSE)]
        ELSE [hexagons |-> appended,
              hex_connections |-> Append(conns, <<hexagon.hex_id, connect_my_side,
                                                  connect_to_hex_id, connect_their_side>>),
              outcome |-> Return(TRUE)]

\* Variant: the two sides are stored in each other's place.
add_hexagon_sides_swapped(hexs, conns, hexagon, connect_to_hex_id, connect_my_side, connect_their_side) ==
    LET appended == Append(hexs, hexagon)
    IN  IF connect_to_hex_id = None
        THEN [hexagons |-> appended, hex_connections |-> conns, outcome |-> Return(TRUE)]
        ELSE IF connect_my_side = None \/ connect_their_side = None
        THEN [hexagons |-> appended, hex_connections |-> conns,
              outcome |-> Raise("ValueError", BothSidesMessage)]
        ELSE IF is_side_occupied(conns, hexagon.hex_id, connect_my_side)
        THEN [hexagons |-> appended, hex_connections |-> conns, outcome |-> Return(FALSE)]
        ELSE IF is_side_occupied(conns, connect_to_hex_id, connect_their_side)
        THEN [hexagons |-> appended, hex_connections |-> conns, outcome |-> Return(FALSE)]
        ELSE [hexagons |-> appended,
              hex_connections |-> Append(conns, <<hexagon.hex_id, connect_their_side,
                                                  connect_to_hex_id, connect_my_side>>),
              outcome |-> Return(TRUE)]

\* add_hexagon on the grid (hexs, conns): the grid afterwards and the outcome.
add_hexagon(hexs, conns, hexagon, connect_to_hex_id, connect_my_side, connect_their_side) ==
    LET appended == Append(hexs, hexagon)
    IN  IF connect_to_hex_id = None
        THEN [hexagons |-> appended, hex_connections |-> conns, outcome |-> Return(TRUE)]
        ELSE IF connect_my_side = None \/ connect_their_side = None
        THEN [hexagons |-> appended, hex_connections |-> conns,
              outcome |-> Raise("ValueError", BothSidesMessage)]
        ELSE IF is_side_occupied(conns, hexagon.hex_id, connect_my_side)
        THEN [hexagons |-> appended, hex_connections |-> conns, outcome |-> Return(FALSE)]
        ELSE IF is_side_occupied(conns, connect_to_hex_id, connect_their_side)
        THEN [hexagons |-> appended, hex_connections |-> conns, outcome |-> Return(FALSE)]
        ELSE [hexagons |-> appended,
              hex_connections |-> Append(conns, <<hexagon.hex_id, connect_my_side,
                                                  connect_to_hex_id, connect_their_side>>),
              outcome |-> Return(TRUE)]

NoHexagon == [hex_id |-> None, territories |-> <<>>, internal_edges |-> <<>>, rotation |-> 0]

get_hexagon_by_id(hexs, hex_id) ==
    LET found == {i \in DOMAIN hexs : hexs[i].hex_id = hex_id}
    IN IF found = {} THEN NoHexagon ELSE hexs[Min(found)]

----------------------------------------------------------------------------
(* networkx.Graph as grid.py uses it: nodes in insertion order, one          *)
(* attribute per node, one edge per unordered node pair with one attribute.  *)
(* An edge is a record of its set of ends and its connection_type.           *)

EmptyGraph == [nodes |-> <<>>, hexagon_id |-> <<>>, edges |-> {}]

\* The distinct elements of xs, in the order of their first occurrence: the
\* key order of a dict after inserting the elements of xs one by one.
FirstOccurrences(xs) ==
    LET firsts == {k \in DOMAIN xs : \A j \in 1..(k - 1) : xs[j] # xs[k]}
    IN  [i \in 1..Cardinality(firsts) |->
            xs[CHOOSE k \in firsts : Cardinality({j \in firsts : j < k}) = i - 1]]

\* graph.add_node(n, hexagon_id=hid) for each <<n, hid>> of entries, in order:
\* a new node is appended, an existing one keeps its place, and the attribute
\* is the one written last.
add_nodes(g, entries) ==
    LET keys == [k \in DOMAIN entries |-> entries[k][1]]
        last(n) == CHOOSE k \in DOMAIN entries :
                       /\ entries[k][1] = n
                       /\ \A j \in DOMAIN entries : entries[j][1] = n => j <= k
    IN  [nodes      |-> FirstOccurrences(g.nodes \o keys),
         hexagon_id |-> [n \in DOMAIN g.hexagon_id \cup Range(keys) |->
                            IF n \in Range(keys) THEN entries[last(n)][2]
                            ELSE g.hexagon_id[n]],
         edges      |-> g.edges]

\* Variant: an edge already present keeps the connection_type it has.
add_edges_keep_first(g, pairs, t) ==
    LET ends == [k \in 1..(2 * Len(pairs)) |-> pairs[(k + 1) \div 2][2 - (k % 2)]]
        touched == {{pairs[k][1], pairs[k][2]} : k \in DOMAIN pairs}
    IN  [nodes      |-> FirstOccurrences(g.nodes \o ends),
         hexagon_id |-> g.hexagon_id,
         edges      |-> g.edges
                        \cup {[ends |-> x, connection_type |-> t] :
                                 x \in {y \in touched : \A e \in g.edges : e.ends # y}}]

\* graph.add_edge(u, v, connection_type=t) for each <<u, v>> of pairs, in
\* order: missing end nodes are added without attributes; an edge already
\* present between u and v is kept and its connection_type is set to t.
add_edges(g, pairs, t) ==
    LET ends == [k \in 1..(2 * Len(pairs)) |-> pairs[(k + 1) \div 2][2 - (k % 2)]]
        touched == {{pairs[k][1], pairs[k][2]} : k \in DOMAIN pairs}
    IN  [nodes      |-> FirstOccurrences(g.nodes \o ends),
         hexagon_id |-> g.hexagon_id,
         edges      |-> {e \in g.edges : e.ends \notin touched}
                        \cup {[ends |-> x, connection_type |-> t] : x \in touched}]

HasEdge(g, u, v) == \E e \in g.edges : e.ends = {u, v}

\* Graph.neighbors(n)
neighbors(g, n) == {m \in Range(g.nodes) : HasEdge(g, n, m)}

\* [(a, b) for a in A for b in B], the order of the nested loops
CrossPairs(A, B) ==
    [k \in 1..(Len(A) * Len(B)) |->
        <<A[((k - 1) \div Len(B)) + 1], B[((k - 1) % Len(B)) + 1]>>]

get_territory_position(territory, side) ==
    LET prev_side == (side - 1) % 6
        next_side == (side + 1) % 6
    IN  IF prev_side \in territory.touching_sides THEN "start"
        ELSE IF next_side \in territory.touching_sides THEN "end"
        ELSE "middle"

\* Variant: at a boundary of two against two, the coin also decides which of
\* the two aligned pairs is made.
get_smart_territory_connections_coin_aligned(hex1_territories, hex2_territories, side1, side2, coin) ==
    IF Len(hex1_territories) = 2 /\ Len(hex2_territories) = 2
    THEN LET hex1_start == SelectSeq(hex1_territories,
                              LAMBDA t : get_territory_position(t, side1) = "start")
             hex1_end   == SelectSeq(hex1_territories,
                              LAMBDA t : get_territory_position(t, side1) = "end")
             hex2_start == SelectSeq(hex2_territories,
                              LAMBDA t : get_territory_position(t, side2) = "start")
             hex2_end   == SelectSeq(hex2_territories,
                              LAMBDA t : get_territory_position(t, side2) = "end")
             allFour    == /\ hex1_start # <<>> /\ hex1_end # <<>>
                           /\ hex2_start # <<>> /\ hex2_end # <<>>
         IN  IF allFour
             THEN [connections |-> IF coin
                                   THEN CrossPairs(hex1_start, hex2_end)
                                        \o CrossPairs(hex1_start, hex2_start)
                                   ELSE CrossPairs(hex1_end, hex2_start)
                                        \o CrossPairs(hex1_end, hex2_end),
                   flipped |-> TRUE]
             ELSE [connections |-> CrossPairs(hex1_start, hex2_end)
                                   \o CrossPairs(hex1_end, hex2_start),
                   flipped |-> FALSE]
    ELSE [connections |-> CrossPairs(hex1_territories, hex2_territories), flipped |-> FALSE]

\* Variant: at a boundary of two against two, both diagonals are added.
get_smart_territory_connections_both_diagonals(hex1_territories, hex2_territories, side1, side2, coin) ==
    IF Len(hex1_territories) = 2 /\ Len(hex2_territories) = 2
    THEN LET hex1_start == SelectSeq(hex1_territories,
                              LAMBDA t : get_territory_position(t, side1) = "start")
             hex1_end   == SelectSeq(hex1_territories,
                              LAMBDA t : get_territory_position(t, side1) = "end")
             hex2_start == SelectSeq(hex2_territories,
                              LAMBDA t : get_territory_position(t, side2) = "start")
             hex2_end   == SelectSeq(hex2_territories,
                              LAMBDA t : get_territory_position(t, side2) = "end")
         IN  [connections |-> CrossPairs(hex1_start, hex2_end) \o CrossPairs(hex1_end, hex2_start)
                              \o CrossPairs(hex1_start, hex2_start)
                              \o CrossPairs(hex1_end, hex2_end),
              flipped |-> hex1_start # <<>> /\ hex1_end # <<>>
                          /\ hex2_start # <<>> /\ hex2_end # <<>>]
    ELSE [connections |-> CrossPairs(hex1_territories, hex2_territories), flipped |-> FALSE]

\* Variant: with one territory on an end, the two lists are paired position by
\* position.
get_smart_territory_connections_zipped(hex1_territories, hex2_territories, side1, side2, coin) ==
    IF Len(hex1_territories) = 1 \/ Len(hex2_territories) = 1
    THEN [connections |-> IF hex1_territories = <<>> \/ hex2_territories = <<>> THEN <<>>
                          ELSE << <<hex1_territories[1], hex2_territories[1]>> >>,
          flipped |-> FALSE]
    ELSE [connections |-> CrossPairs(hex1_territories, hex2_territories), flipped |-> FALSE]

\* _get_smart_territory_connections; coin is what random.choice([True, False])
\* returns if it is called.  flipped tells whether it was called.
get_smart_territory_connections(hex1_territories, hex2_territories, side1, side2, coin) ==
    IF Len(hex1_territories) = 1 \/ Len(hex2_territories) = 1
    THEN [connections |-> CrossPairs(hex1_territories, hex2_territories), flipped |-> FALSE]
    ELSE IF Len(hex1_territories) = 2 /\ Len(hex2_territories) = 2
    THEN LET hex1_start == SelectSeq(hex1_territories,
                              LAMBDA t : get_territory_position(t, side1) = "start")
             hex1_end   == SelectSeq(hex1_territories,
                              LAMBDA t : get_territory_position(t, side1) = "end")
             hex2_start == SelectSeq(hex2_territories,
                              LAMBDA t : get_territory_position(t, side2) = "start")
             hex2_end   == SelectSeq(hex2_territories,
                              LAMBDA t : get_territory_position(t, side2) = "end")
             aligned    == CrossPairs(hex1_start, hex2_end) \o CrossPairs(hex1_end, hex2_start)
             allFour    == /\ hex1_start # <<>> /\ hex1_end # <<>>
                           /\ hex2_start # <<>> /\ hex2_end # <<>>
         IN  IF allFour
             THEN [connections |-> aligned \o (IF coin
                                               THEN CrossPairs(hex1_start, hex2_start)
                                               ELSE CrossPairs(hex1_end, hex2_end)),
                   flipped |-> TRUE]
             ELSE [connections |-> aligned, flipped |-> FALSE]
    ELSE [connections |-> CrossPairs(hex1_territories, hex2_territories), flipped |-> FALSE]

\* Step 1 of extract_territory_graph, the node part: <<node, hexagon_id>> of
\* every territory of the hexagons from index i on, in list order.
RECURSIVE AllTerritoryNodes(_, _)
AllTerritoryNodes(hexs, i) ==
    IF i > Len(hexs) THEN <<>>
    ELSE [k \in 1..Len(hexs[i].territories) |->
             <<str(hexs[i].territories[k].territory_id), str(hexs[i].hex_id)>>]
         \o AllTerritoryNodes(hexs, i + 1)

\* Variant: the internal edges of one hexagon only.
AllInternalEdges_FirstOnly(hexs, i) ==
    IF i > Len(hexs) THEN <<>>
    ELSE [k \in 1..Len(hexs[i].internal_edges) |->
             <<str(hexs[i].internal_edges[k][1].territory_id),
               str(hexs[i].internal_edges[k][2].territory_id)>>]

\* Step 1, the edge part: all_internal_edges
RECURSIVE AllInternalEdges(_, _)
AllInternalEdges(hexs, i) ==
    IF i > Len(hexs) THEN <<>>
    ELSE [k \in 1..Len(hexs[i].internal_edges) |->
             <<str(hexs[i].internal_edges[k][1].territory_id),
               str(hexs[i].internal_edges[k][2].territory_id)>>]
         \o AllInternalEdges(hexs, i + 1)

\* Variant: the territories touching the side or the side after it.
territories_touching_next_side_too(hexagon, side) ==
    SelectSeq(hexagon.territories,
              LAMBDA t : side \in t.touching_sides \/ ((side + 1) % 6) \in t.touching_sides)

\* Variant: every territory of the hexagon, whichever sides it touches.
territories_touching_any(hexagon, side) ==
    hexagon.territories

\* Lines 102-105: [t for t in hex.territories if side in t.touching_sides]
territories_touching(hexagon, side) ==
    SelectSeq(hexagon.territories, LAMBDA t : side \in t.touching_sides)

\* Lines 92-109 for one connection tuple whose two hexagons were found: the
\* pairs of node names handed to add_edge, in order, and whether the coin was
\* flipped.
connection_pairs(hexs, conn, coin) ==
    LET hex1 == get_hexagon_by_id(hexs, conn[1])
        side1 == conn[2]
        hex2 == get_hexagon_by_id(hexs, conn[3])
        side2 == conn[4]
        hex1_territories == territories_touching(hex1, side1)
        hex2_territories == territories_touching(hex2, side2)
        smart == get_smart_territory_connections(hex1_territories, hex2_territories,
                                                 side1, side2, coin)
    IN  [pairs |-> [j \in 1..Len(smart.connections) |->
                       <<str(smart.connections[j][1].territory_id),
                         str(smart.connections[j][2].territory_id)>>],
         flipped |-> smart.flipped]

\* Step 3: the connections from index k on.  coins[k] is the result of the
\* coin flip of connection k, if that connection flips one.
RECURSIVE InterHexagonPass(_, _, _, _, _, _)
InterHexagonPass(g, flips, hexs, conns, coins, k) ==
    IF k > Len(conns) THEN [graph |-> g, flips |-> flips]
    ELSE
      LET hex1 == get_hexagon_by_id(hexs, conns[k][1])
          hex2 == get_hexagon_by_id(hexs, conns[k][3])
      IN  IF hex1.hex_id = None \/ hex2.hex_id = None
          THEN InterHexagonPass(g, flips, hexs, conns, coins, k + 1)
          ELSE
            LET made == connection_pairs(hexs, conns[k], coins[k])
            IN  InterHexagonPass(add_edges(g, made.pairs, "inter_hexagon"),
                                 flips + (IF made.flipped THEN 1 ELSE 0),
                                 hexs, conns, coins, k + 1)

\* extract_territory_graph: the graph, and how many coins were flipped
extract_territory_graph(hexs, conns, coins) ==
    LET withNodes == add_nodes(EmptyGraph, AllTerritoryNodes(hexs, 1))
        withInternal == add_edges(withNodes, AllInternalEdges(hexs, 1), "internal")
    IN  InterHexagonPass(withInternal, 0, hexs, conns, coins, 1)

CoinSeqs(conns) == [DOMAIN conns -> BOOLEAN]

----------------------------------------------------------------------------
(* cli.py: _create_supply_territories_algo, piece by piece *)

\* Lines 97-102: one round of neighbour expansion
expand_neighbors(g, to_remove) ==
    to_remove \cup UNION {neighbors(g, t) : t \in (to_remove \cap Range(g.nodes))}

\* Variant: the neighbours and their neighbours are removed, the selected
\* territory itself is not.
territories_to_remove_neighbours_only(g, selected_territory) ==
    expand_neighbors(g, expand_neighbors(g, {selected_territory})) \ {selected_territory}

\* Variant: one round of neighbour expansion only.
territories_to_remove_one_round(g, selected_territory) ==
    expand_neighbors(g, {selected_territory})

\* Lines 93-102: the selected territory, its neighbours and their neighbours
\* (`for distance in range(1, 3)`: two rounds of neighbour expansion).
territories_to_remove(g, selected_territory) ==
    expand_neighbors(g, expand_neighbors(g, {selected_territory}))

----------------------------------------------------------------------------
(* The state machine *)

NoCall == [op |-> "none"]
NoOutcome == [kind |-> "none"]

AlgoIdle ==
    /\ pc = "idle"
    /\ territory_graph = EmptyGraph
    /\ all_territory_ids = <<>>
    /\ attempt = None
    /\ available_territories = {}
    /\ selected_supply_centers = <<>>
    /\ coin_flips = 0
    /\ random_picks = 0

\* HexagonGrid(): an empty grid
InitGrid ==
    /\ hexagons = <<>>
    /\ hex_connections = <<>>
    /\ call = NoCall
    /\ outcome = NoOutcome
    /\ AlgoIdle

GridArchetypes == {"overlap"}

\* grid.add_hexagon(hexagon, connect_to_hex_id, connect_my_side, connect_their_side)
AddHexagon ==
    /\ Len(hexagons) < MaxHexagons
    /\ \E hid \in HexIds, name \in GridArchetypes,
          connect_to_hex_id \in HexIds \cup {None},
          connect_my_side \in SideInputs \cup {None},
          connect_their_side \in SideInputs \cup {None} :
        LET hexagon == MakeHexagon(name, hid)
            after == add_hexagon(hexagons, hex_connections, hexagon,
                                 connect_to_hex_id, connect_my_side, connect_their_side)
        IN  /\ hexagons' = after.hexagons
            /\ hex_connections' = after.hex_connections
            /\ outcome' = after.outcome
            /\ call' = [op |-> "add_hexagon", hexagon |-> hexagon,
                        connect_to_hex_id |-> connect_to_hex_id,
                        connect_my_side |-> connect_my_side,
                        connect_their_side |-> connect_their_side]
    /\ UNCHANGED <<territory_graph, coin_flips>>
    /\ UNCHANGED algoVars

NextGrid == AddHexagon

SpecGrid == InitGrid /\ [][NextGrid]_vars

----------------------------------------------------------------------------
(* The selector, run on a grid assembled beforehand *)

\* Sides a link of the chain joins: <<side of the new hexagon, side of the
\* hexagon before it>>.  The first is the link create_hexagon_ring makes at
\* rotation 0 for its second hexagon (SOUTHWEST to NORTHEAST); the second
\* joins two sides that two territories of HandBuiltOverlap touch.
LinkSides == {<<4, 1>>, <<1, 3>>}

SelectorArchetypes == {"single", "triple", "five", "overlap"}

\* The grid after add_hexagon of hexagons 1..n in a chain, hexagon i + 1
\* linked to hexagon i by links[i].
RECURSIVE BuildChain(_, _, _)
BuildChain(names, links, n) ==
    IF n = 0 THEN [hexagons |-> <<>>, hex_connections |-> <<>>]
    ELSE LET before == BuildChain(names, links, n - 1)
         IN  IF n = 1
             THEN add_hexagon(before.hexagons, before.hex_connections,
                              MakeHexagon(names[n], n), None, None, None)
             ELSE add_hexagon(before.hexagons, before.hex_connections,
                              MakeHexagon(names[n], n), n - 1,
                              links[n - 1][1], links[n - 1][2])

InitAlgo ==
    /\ \E n \in 0..MaxChain :
       \E names \in [1..n -> SelectorArchetypes] :
       \E links \in [1..(n - 1) -> LinkSides] :
          LET built == BuildChain(names, links, n)
          IN  /\ hexagons = built.hexagons
              /\ hex_connections = built.hex_connections
    /\ call = NoCall
    /\ outcome = NoOutcome
    /\ AlgoIdle

\* The territories of all the hexagons of a grid, counted
RECURSIVE TotalTerritories(_, _)
TotalTerritories(hexs, i) ==
    IF i > Len(hexs) THEN 0
    ELSE Len(hexs[i].territories) + TotalTerritories(hexs, i + 1)

\* Counts requested: small ones, a negative one, and one more than the grid
\* has territories
NumSupplyInputs == ((-1)..MaxSupply) \cup {TotalTerritories(hexagons, 1) + 1}

num_supply == call.num_supply

\* Variant: the count is not compared with the number of nodes.
AlgoEntry_Unchecked ==
    /\ pc = "idle"
    /\ \E n \in NumSupplyInputs, coins \in CoinSeqs(hex_connections) :
        LET ex == extract_territory_graph(hexagons, hex_connections, coins)
        IN  /\ call' = [op |-> "_create_supply_territories_algo", num_supply |-> n]
            /\ territory_graph' = ex.graph
            /\ coin_flips' = ex.flips
            /\ all_territory_ids' = ex.graph.nodes
            /\ outcome' = NoOutcome
            /\ pc' = "for"
    /\ UNCHANGED <<attempt, available_territories, selected_supply_centers, random_picks>>
    /\ UNCHANGED gridVars

\* Lines 74-79: extract the graph, list its nodes, reject a count that is
\* larger than the number of nodes.
AlgoEntry ==
    /\ pc = "idle"
    /\ \E n \in NumSupplyInputs, coins \in CoinSeqs(hex_connections) :
        LET ex == extract_territory_graph(hexagons, hex_connections, coins)
            ids == ex.graph.nodes
        IN  /\ call' = [op |-> "_create_supply_territories_algo", num_supply |-> n]
            /\ territory_graph' = ex.graph
            /\ coin_flips' = ex.flips
            /\ all_territory_ids' = ids
            /\ IF n > Len(ids)
               THEN /\ outcome' = Raise("ValueError",
                                        [num_supply |-> n, territories |-> Len(ids)])
                    /\ pc' = "done"
               ELSE /\ outcome' = NoOutcome
                    /\ pc' = "for"
    /\ UNCHANGED <<attempt, available_territories, selected_supply_centers, random_picks>>
    /\ UNCHANGED gridVars

\* The value `for attempt in range(max_retries)` takes next
NextAttempt == IF attempt = None THEN 0 ELSE attempt + 1

\* Lines 81-85: the loop has another value; a fresh attempt begins
ForAttempt ==
    /\ pc = "for"
    /\ NextAttempt < max_retries
    /\ attempt' = NextAttempt
    /\ available_territories' = Range(all_territory_ids)
    /\ selected_supply_centers' = <<>>
    /\ pc' = "while"
    /\ UNCHANGED <<call, outcome, territory_graph, all_territory_ids, coin_flips, random_picks>>
    /\ UNCHANGED gridVars

\* Lines 87-105: one iteration of the while loop
WhilePick ==
    /\ pc = "while"
    /\ Len(selected_supply_centers) < num_supply
    /\ available_territories # {}
    /\ \E selected_territory \in available_territories :
        /\ selected_supply_centers' = Append(selected_supply_centers, selected_territory)
        /\ available_territories' =
               available_territories \ territories_to_remove(territory_graph, selected_territory)
    /\ random_picks' = random_picks + 1
    /\ UNCHANGED <<pc, call, outcome, territory_graph, all_territory_ids, attempt, coin_flips>>
    /\ UNCHANGED gridVars

\* Variant: whatever was selected is returned when the while loop is over.
WhileExit_ReturnsShort ==
    /\ pc = "while"
    /\ ~ (Len(selected_supply_centers) < num_supply /\ available_territories # {})
    /\ outcome' = Return(selected_supply_centers)
    /\ pc' = "done"
    /\ UNCHANGED <<call, territory_graph, all_territory_ids, attempt, available_territories,
                   selected_supply_centers, coin_flips, random_picks>>
    /\ UNCHANGED gridVars

\* Lines 107-109: the while loop is over; return on an exact count, else
\* go on to the next attempt
WhileExit ==
    /\ pc = "while"
    /\ ~ (Len(selected_supply_centers) < num_supply /\ available_territories # {})
    /\ IF Len(selected_supply_centers) = num_supply
       THEN /\ outcome' = Return(selected_supply_centers)
            /\ pc' = "done"
       ELSE /\ outcome' = outcome
            /\ pc' = "for"
    /\ UNCHANGED <<call, territory_graph, all_territory_ids, attempt, available_territories,
                   selected_supply_centers, coin_flips, random_picks>>
    /\ UNCHANGED gridVars

\* Lines 115-117: range(max_retries) is used up
RaiseExhausted ==
    /\ pc = "for"
    /\ ~ (NextAttempt < max_retries)
    /\ outcome' = Raise("RuntimeError",
                        [num_supply |-> num_supply, max_retries |-> max_retries])
    /\ pc' = "done"
    /\ UNCHANGED <<call, territory_graph, all_territory_ids, attempt, available_territories,
                   selected_supply_centers, coin_flips, random_picks>>
    /\ UNCHANGED gridVars

NextAlgo == AlgoEntry \/ ForAttempt \/ WhilePick \/ WhileExit \/ RaiseExhausted

SpecAlgo == InitAlgo /\ [][NextAlgo]_vars

\* Lines 81-117: the steps of a call that is under way
AlgoSteps == ForAttempt \/ WhilePick \/ WhileExit \/ RaiseExhausted

\* The archetypes of the grids on which termination is followed
TerminationArchetypes == {"single", "triple", "overlap"}

InitTermination ==
    /\ \E n \in 0..MaxChain :
       \E names \in [1..n -> TerminationArchetypes] :
       \E links \in [1..(n - 1) -> LinkSides] :
          LET built == BuildChain(names, links, n)
          IN  /\ hexagons = built.hexagons
              /\ hex_connections = built.hex_connections
    /\ call = NoCall
    /\ outcome = NoOutcome
    /\ AlgoIdle

\* The selector is one synchronous call on one thread: a call under way that
\* can take its next step takes it.
SpecAlgoFair == InitTermination /\ [][NextAlgo]_vars /\ WF_vars(AlgoSteps)

----------------------------------------------------------------------------
(* cli.py: create_supply_territories, every mode, and graph extraction, on a *)
(* grid assembled beforehand                                                 *)

\* Lines 33-36: all_territories
all_territories(hexs) ==
    LET entries == AllTerritoryNodes(hexs, 1)
    IN  [k \in DOMAIN entries |-> entries[k][1]]

\* The count the oneperhex mode compares num_supply with (line 39)
OnePerHexCount == 7

\* Counts requested in the oneperhex mode: small ones, the number of hexagons
\* of the grid, and the count of line 39
OnePerHexInputs == (0..MaxSupply) \cup {Len(hexagons), OnePerHexCount}

\* Counts requested in the random mode
RandomInputs == {-1, 0, 1, 2}

\* random.sample(xs, k): k elements from k different positions of xs, in any
\* order
Samples(xs, k) ==
    {[i \in 1..k |-> xs[f[i]]] :
        f \in {g \in [1..k -> DOMAIN xs] : \A i, j \in 1..k : i # j => g[i] # g[j]}}

SupplyCall(mode, n) ==
    [op |-> "create_supply_territories", supply_mode |-> mode, num_supply |-> n]

\* Lines 29-30: supply_mode == 'none'
SupplyNone ==
    /\ pc = "idle"
    /\ \E n \in 0..MaxSupply : call' = SupplyCall("none", n)
    /\ outcome' = Return(None)
    /\ pc' = "done"
    /\ UNCHANGED <<territory_graph, all_territory_ids, attempt, available_territories,
                   selected_supply_centers, coin_flips, random_picks>>
    /\ UNCHANGED gridVars

\* Variant: the territory chosen for a hexagon is taken out of that hexagon.
SupplyOnePerHex_Consumes ==
    /\ pc = "idle"
    /\ \E n \in OnePerHexInputs :
        /\ call' = SupplyCall("oneperhex", n)
        /\ IF n # OnePerHexCount
           THEN /\ outcome' = Raise("ValueError", [num_supply |-> n])
                /\ UNCHANGED <<random_picks, hexagons>>
           ELSE \E choice \in [DOMAIN hexagons -> 1..5] :
                  /\ \A i \in DOMAIN hexagons : choice[i] <= Len(hexagons[i].territories)
                  /\ outcome' = Return([i \in DOMAIN hexagons |->
                                   str(hexagons[i].territories[choice[i]].territory_id)])
                  /\ random_picks' = random_picks + Len(hexagons)
                  /\ hexagons' = [i \in DOMAIN hexagons |->
                         [hexagons[i] EXCEPT !.territories =
                             SelectSeq(hexagons[i].territories,
                                       LAMBDA t : t # hexagons[i].territories[choice[i]])]]
    /\ pc' = "done"
    /\ UNCHANGED <<territory_graph, all_territory_ids, attempt, available_territories,
                   selected_supply_centers, coin_flips, hex_connections>>

\* Lines 38-48: supply_mode == 'oneperhex'.  A hexagon without territories is
\* passed over; every other hexagon gives one territory, chosen at random.
SupplyOnePerHex ==
    /\ pc = "idle"
    /\ \E n \in OnePerHexInputs :
        /\ call' = SupplyCall("oneperhex", n)
        /\ IF n # OnePerHexCount
           THEN /\ outcome' = Raise("ValueError", [num_supply |-> n])
                /\ random_picks' = random_picks
           ELSE LET chosen == SelectSeq(hexagons, LAMBDA h : h.territories # <<>>)
                IN  \E choice \in [DOMAIN chosen -> 1..5] :
                      /\ \A i \in DOMAIN chosen : choice[i] <= Len(chosen[i].territories)
                      /\ outcome' = Return([i \in DOMAIN chosen |->
                                       str(chosen[i].territories[choice[i]].territory_id)])
                      /\ random_picks' = random_picks + Len(chosen)
    /\ pc' = "done"
    /\ UNCHANGED <<territory_graph, all_territory_ids, attempt, available_territories,
                   selected_supply_centers, coin_flips>>
    /\ UNCHANGED gridVars

\* Lines 50-52: supply_mode == 'random'.  random.sample raises ValueError for
\* a negative sample size.
SupplyRandom ==
    /\ pc = "idle"
    /\ \E n \in RandomInputs :
        LET k == IF n <= Len(all_territories(hexagons))
                 THEN n ELSE Len(all_territories(hexagons))
        IN  /\ call' = SupplyCall("random", n)
            /\ random_picks' = random_picks + 1
            /\ IF k < 0
               THEN outcome' = Raise("ValueError", [sample |-> k])
               ELSE \E sample \in Samples(all_territories(hexagons), k) :
                       outcome' = Return(sample)
    /\ pc' = "done"
    /\ UNCHANGED <<territory_graph, all_territory_ids, attempt, available_territories,
                   selected_supply_centers, coin_flips>>
    /\ UNCHANGED gridVars

\* Whether the inter-hexagon pass flips a coin for this connection tuple
flips_coin(hexs, conn) ==
    /\ get_hexagon_by_id(hexs, conn[1]).hex_id # None
    /\ get_hexagon_by_id(hexs, conn[3]).hex_id # None
    /\ connection_pairs(hexs, conn, TRUE).flipped

\* What random.choice([True, False]) can return over one extraction:
\* coins[k] for connection k; FALSE stands where no coin is flipped.
CoinResults(hexs, conns) ==
    {coins \in CoinSeqs(conns) :
        \A k \in DOMAIN conns : ~ flips_coin(hexs, conns[k]) => coins[k] = FALSE}

\* grid.extract_territory_graph(); the call record keeps what the coins gave
ExtractTerritoryGraph ==
    /\ pc = "idle"
    /\ \E coins \in CoinResults(hexagons, hex_connections) :
        LET ex == extract_territory_graph(hexagons, hex_connections, coins)
        IN  /\ territory_graph' = ex.graph
            /\ coin_flips' = ex.flips
            /\ call' = [op |-> "extract_territory_graph", random_choice |-> coins]
    /\ outcome' = Return("graph")
    /\ pc' = "done"
    /\ UNCHANGED <<all_territory_ids, attempt, available_territories,
                   selected_supply_centers, random_picks>>
    /\ UNCHANGED gridVars

\* Lines 54-56: supply_mode == 'algo' is _create_supply_territories_algo
NextSupply ==
    \/ SupplyNone
    \/ SupplyOnePerHex
    \/ SupplyRandom
    \/ ExtractTerritoryGraph
    \/ AlgoEntry \/ ForAttempt \/ WhilePick \/ WhileExit \/ RaiseExhausted

SpecSupply == InitAlgo /\ [][NextSupply]_vars

----------------------------------------------------------------------------
(* Graph extraction on grids assembled by add_hexagon *)

NoLink == <<None, None, None>>

\* How a hexagon is added: alone, or linked <<back, its side, their side>> to
\* the hexagon added `back` calls earlier.  back = 0 names the hexagon itself;
\* for the first hexagon back = 1 names a hexagon the grid does not hold.
ExtractLinks ==
    {NoLink} \cup {<<back, sides[1], sides[2]>> : back \in {0, 1}, sides \in LinkSides}

\* The grid after add_hexagon of hexagons 1..n, hexagon i added as links[i] says
RECURSIVE BuildGrid(_, _, _)
BuildGrid(names, links, n) ==
    IF n = 0 THEN [hexagons |-> <<>>, hex_connections |-> <<>>]
    ELSE LET before == BuildGrid(names, links, n - 1)
         IN  IF links[n] = NoLink
             THEN add_hexagon(before.hexagons, before.hex_connections,
                              MakeHexagon(names[n], n), None, None, None)
             ELSE add_hexagon(before.hexagons, before.hex_connections,
                              MakeHexagon(names[n], n), n - links[n][1],
                              links[n][2], links[n][3])

InitExtract ==
    /\ \E n \in 0..MaxChain :
       \E names \in [1..n -> ArchetypeNames] :
       \E links \in [1..n -> ExtractLinks] :
          LET built == BuildGrid(names, links, n)
          IN  /\ hexagons = built.hexagons
              /\ hex_connections = built.hex_connections
    /\ call = NoCall
    /\ outcome = NoOutcome
    /\ AlgoIdle

NextExtract == ExtractTerritoryGraph

SpecExtract == InitExtract /\ [][NextExtract]_vars

\* grid.extract_territory_graph() called once more on the same grid
ExtractAgain ==
    /\ pc = "done"
    /\ call.op = "extract_territory_graph"
    /\ \E coins \in CoinResults(hexagons, hex_connections) :
        LET ex == extract_territory_graph(hexagons, hex_connections, coins)
        IN  /\ territory_graph' = ex.graph
            /\ coin_flips' = ex.flips
            /\ call' = [op |-> "extract_territory_graph", random_choice |-> coins]
    /\ outcome' = Return("graph")
    /\ pc' = "done"
    /\ UNCHANGED <<all_territory_ids, attempt, available_territories,
                   selected_supply_centers, random_picks>>
    /\ UNCHANGED gridVars

NextExtractTwice == ExtractTerritoryGraph \/ ExtractAgain

SpecExtractTwice == InitExtract /\ [][NextExtractTwice]_vars

----------------------------------------------------------------------------
(* The archetype factory and the rotation arithmetic of one hexagon *)

FactoryNames == {"single", "triple", "diamond", "five", "random"}

HexDirection == 0..5

\* hex = HexagonArchetypes.create_<name>(); hex.rotation = random.randint(0, 5);
\* grid.add_hexagon(hex)
AddArchetype ==
    /\ hexagons = <<>>
    /\ \E name \in FactoryNames, choice \in RandomChoices, rotation \in 0..5 :
        LET made == IF name = "random" THEN create_random(1, choice)
                    ELSE MakeHexagon(name, 1)
            after == add_hexagon(hexagons, hex_connections, with_rotation(made, rotation),
                                 None, None, None)
        IN  /\ hexagons' = after.hexagons
            /\ hex_connections' = after.hex_connections
            /\ outcome' = after.outcome
            /\ call' = [op |-> "create", name |-> name]
    /\ UNCHANGED <<territory_graph, coin_flips>>
    /\ UNCHANGED algoVars

\* hexagon.get_side_by_direction(direction) on a hexagon of the grid
GetSideByDirection ==
    /\ \E i \in DOMAIN hexagons, direction \in HexDirection :
        /\ call' = [op |-> "get_side_by_direction", hexagon |-> i, direction |-> direction]
        /\ outcome' = Return(get_side_by_direction(hexagons[i], direction))
    /\ UNCHANGED <<territory_graph, coin_flips>>
    /\ UNCHANGED algoVars
    /\ UNCHANGED gridVars

NextHexagon == AddArchetype \/ GetSideByDirection

SpecHexagon == InitGrid /\ [][NextHexagon]_vars

----------------------------------------------------------------------------
(* cli.py: create_hexagon_ring *)

\* The factory methods create_random_archetype and create_hexagon_ring call.
\* Each gives the pattern of its family: a triple, a diamond, a five.
create_triple_standard(hid) == create_triple(hid)
create_diamond_standard(hid) == create_diamond(hid)
create_five_standard(hid) == create_five(hid)
create_triple_expanded(hid) == create_triple(hid)
create_diamond_expanded(hid) == create_diamond(hid)
create_diamond_maximal(hid) == create_diamond(hid)

ArchetypeFilters == {"standard_only", "expanded_only", "all"}

\* Lines 130-136: the list random.choice draws from
choices(archetype_filter) ==
    IF archetype_filter = "standard_only"
    THEN <<"triple_standard", "diamond_standard", "five_standard">>
    ELSE IF archetype_filter = "expanded_only"
    THEN <<"triple_expanded", "diamond_expanded", "diamond_maximal">>
    ELSE <<"triple_standard", "diamond_standard", "five_standard",
           "triple_expanded", "diamond_expanded", "diamond_maximal">>

\* Lines 140-151 and 239-256: the factory method of a name
create_named(name, hid) ==
    CASE name = "triple_standard"  -> create_triple_standard(hid)
      [] name = "diamond_standard" -> create_diamond_standard(hid)
      [] name = "five_standard"    -> create_five_standard(hid)
      [] name = "triple_expanded"  -> create_triple_expanded(hid)
      [] name = "diamond_expanded" -> create_diamond_expanded(hid)
      [] name = "diamond_maximal"  -> create_diamond_maximal(hid)

CenterTypes == {"single", "triple_standard", "triple_expanded", "diamond_standard",
                "diamond_expanded", "diamond_maximal", "five_standard", "random"}

\* Lines 236-259: the center hexagon of a center type
create_center(center_type, hid, choice) ==
    IF center_type = "single" THEN create_single(hid)
    ELSE IF center_type = "random" THEN create_random(hid, choice)
    ELSE create_named(center_type, hid)

\* What random.randint(0, 5) returns, as far as the model follows it
RotationInputs == 0..MaxRotation

\* What the six calls of random.choice(choices) return over one call of
\* create_hexagon_ring, as far as the model follows them: six times the same
\* entry of the list, or its entries in turn.
RingDraws(archetype_filter) ==
    LET list == choices(archetype_filter)
    IN  {[k \in 1..6 |-> list[c]] : c \in DOMAIN list}
        \cup {[k \in 1..6 |-> list[((k - 1) % Len(list)) + 1]]}

\* The same six calls, when they return the entries of the list in turn
RingDrawsInTurn(archetype_filter) ==
    LET list == choices(archetype_filter)
    IN  {[k \in 1..6 |-> list[((k - 1) % Len(list)) + 1]]}

\* Variant: the third hexagon is linked to the side of the second that the
\* second's own link took.
ring_links_side_reused ==
    [k \in 2..6 |-> CASE k = 2 -> <<4, 1>>
                      [] k = 3 -> <<3, 4>>
                      [] k = 4 -> <<2, 5>>
                      [] k = 5 -> <<1, 4>>
                      [] k = 6 -> <<0, 3>>]

\* Lines 170-223: <<direction of the new hexagon, direction of the hexagon
\* before it>> for the second to the sixth hexagon of the ring
ring_links ==
    [k \in 2..6 |-> CASE k = 2 -> <<4, 1>>
                      [] k = 3 -> <<3, 0>>
                      [] k = 4 -> <<2, 5>>
                      [] k = 5 -> <<1, 4>>
                      [] k = 6 -> <<0, 3>>]

\* Variant: the first hexagon is linked to the center by its northeast side,
\* the side the second hexagon is linked to.
ring_to_center_mapping_northeast == <<<<1, 4>>, <<5, 2>>, <<4, 1>>, <<3, 0>>, <<2, 5>>, <<0, 3>>>>

\* Lines 269-276: <<ring direction, center direction>>
ring_to_center_mapping == <<<<0, 3>>, <<5, 2>>, <<4, 1>>, <<3, 0>>, <<2, 5>>, <<1, 4>>>>

\* Lines 162-168: the grid, and the first hexagon of the ring, for arguments
\* out of two sets, archetype draws out of the set draws_of gives for the
\* filter, and a rotation out of a set
RingStartOf(center_types, archetype_filters, draws_of, rotations) ==
    /\ pc = "idle"
    /\ hexagons = <<>>
    /\ \E center_type \in center_types, archetype_filter \in archetype_filters :
       \E draws \in draws_of[archetype_filter], rotation \in rotations :
        LET hex1 == with_rotation(create_named(draws[1], 1), rotation)
            after == add_hexagon(hexagons, hex_connections, hex1, None, None, None)
        IN  /\ call' = [op |-> "create_hexagon_ring", center_type |-> center_type,
                        archetype_filter |-> archetype_filter, random_choice |-> draws]
            /\ hexagons' = after.hexagons
            /\ hex_connections' = after.hex_connections
    /\ outcome' = NoOutcome
    /\ pc' = "ring"
    /\ UNCHANGED <<territory_graph, all_territory_ids, attempt, available_territories,
                   selected_supply_centers, coin_flips, random_picks>>

RingStart ==
    RingStartOf(CenterTypes, ArchetypeFilters,
                [f \in ArchetypeFilters |-> RingDraws(f)], RotationInputs)

\* Lines 170-223: the next hexagon of the ring, linked to the one before it
RingLinkOf(rotations) ==
    /\ pc = "ring"
    /\ \E rotation \in rotations :
        LET k == Len(hexagons) + 1
            before == hexagons[k - 1]
            hexk == with_rotation(create_named(call.random_choice[k], k), rotation)
            after == add_hexagon(hexagons, hex_connections, hexk, before.hex_id,
                                 get_side_by_direction(hexk, ring_links[k][1]),
                                 get_side_by_direction(before, ring_links[k][2]))
        IN  /\ hexagons' = after.hexagons
            /\ hex_connections' = after.hex_connections
            /\ pc' = IF k = 6 THEN "close" ELSE "ring"
    /\ UNCHANGED <<call, outcome, territory_graph, all_territory_ids, attempt,
                   available_territories, selected_supply_centers, coin_flips, random_picks>>

RingLink == RingLinkOf(RotationInputs)

\* Lines 225-232: the ring is closed by an append to the connection list
RingClose ==
    /\ pc = "close"
    /\ hex_connections' =
           Append(hex_connections,
                  <<hexagons[6].hex_id, get_side_by_direction(hexagons[6], 2),
                    hexagons[1].hex_id, get_side_by_direction(hexagons[1], 5)>>)
    /\ pc' = "center"
    /\ UNCHANGED <<hexagons, call, outcome, territory_graph, all_territory_ids, attempt,
                   available_territories, selected_supply_centers, coin_flips, random_picks>>

\* Lines 235-301: the center hexagon, its six connections, and the return
RingCenterOf(rotations) ==
    /\ pc = "center"
    /\ \E choice \in RandomChoices, rotation \in rotations :
        LET center_hex == with_rotation(create_center(call.center_type, 7, choice), rotation)
            after == add_hexagon(hexagons, hex_connections, center_hex, None, None, None)
            links == [i \in 1..6 |->
                        <<center_hex.hex_id,
                          get_side_by_direction(center_hex, ring_to_center_mapping[i][2]),
                          hexagons[i].hex_id,
                          get_side_by_direction(hexagons[i], ring_to_center_mapping[i][1])>>]
        IN  /\ hexagons' = after.hexagons
            /\ hex_connections' = after.hex_connections \o links
    /\ outcome' = Return("grid")
    /\ pc' = "done"
    /\ UNCHANGED <<call, territory_graph, all_territory_ids, attempt,
                   available_territories, selected_supply_centers, coin_flips, random_picks>>

RingCenter == RingCenterOf(RotationInputs)

NextRing == RingStart \/ RingLink \/ RingClose \/ RingCenter

SpecRing == InitGrid /\ [][NextRing]_vars

\* create_hexagon_ring with every rotation random.randint(0, 5) can return,
\* for one center type and one archetype filter
AllRotations == 0..5

RingStartAnyRotation ==
    RingStartOf({"single"}, {"standard_only"},
                [f \in ArchetypeFilters |-> RingDrawsInTurn(f)], AllRotations)

RingLinkAnyRotation == RingLinkOf(AllRotations)

RingCenterAnyRotation == RingCenterOf(AllRotations)

NextRingRotations ==
    RingStartAnyRotation \/ RingLinkAnyRotation \/ RingClose \/ RingCenterAnyRotation

SpecRingRotations == InitGrid /\ [][NextRingRotations]_vars

----------------------------------------------------------------------------
(* hex.py: the standalone script.  Its models, archetypes and add_hexagon   *)
(* are those of the library; its extraction and its main are its own.       *)

\* hex.py lines 123-139: the connections from index k on, every territory
\* touching the first side with every territory touching the second
RECURSIVE hex_py_inter_hexagon_pass(_, _, _, _)
hex_py_inter_hexagon_pass(g, hexs, conns, k) ==
    IF k > Len(conns) THEN g
    ELSE
      LET hex1 == get_hexagon_by_id(hexs, conns[k][1])
          hex2 == get_hexagon_by_id(hexs, conns[k][3])
      IN  IF hex1.hex_id = None \/ hex2.hex_id = None
          THEN hex_py_inter_hexagon_pass(g, hexs, conns, k + 1)
          ELSE
            LET hex1_territories == territories_touching(hex1, conns[k][2])
                hex2_territories == territories_touching(hex2, conns[k][4])
                made == CrossPairs(hex1_territories, hex2_territories)
                pairs == [j \in 1..Len(made) |->
                            <<str(made[j][1].territory_id), str(made[j][2].territory_id)>>]
            IN  hex_py_inter_hexagon_pass(add_edges(g, pairs, "inter_hexagon"),
                                          hexs, conns, k + 1)

\* hex.py lines 101-145: HexagonGrid.extract_territory_graph of the script
hex_py_extract_territory_graph(hexs, conns) ==
    LET withNodes == add_nodes(EmptyGraph, AllTerritoryNodes(hexs, 1))
        withInternal == add_edges(withNodes, AllInternalEdges(hexs, 1), "internal")
    IN  hex_py_inter_hexagon_pass(withInternal, hexs, conns, 1)

\* What the six calls of create_random draw over one run of main, as far as
\* the model follows them: six times the same archetype, or the three in turn
MainDraws ==
    LET list == <<"triple", "diamond", "five">>
    IN  {[k \in 1..6 |-> list[c]] : c \in DOMAIN list}
        \cup {[k \in 1..6 |-> list[((k - 1) % Len(list)) + 1]]}

\* hex.py lines 353-406: <<direction of the new hexagon, direction of the
\* hexagon before it>> for the second to the sixth hexagon of the ring
main_ring_links ==
    [k \in 2..6 |-> CASE k = 2 -> <<4, 1>>
                      [] k = 3 -> <<3, 0>>
                      [] k = 4 -> <<2, 5>>
                      [] k = 5 -> <<1, 4>>
                      [] k = 6 -> <<0, 3>>]

\* hex.py lines 345-351: the grid, and the first hexagon of the ring
MainStart ==
    /\ pc = "idle"
    /\ hexagons = <<>>
    /\ \E draws \in MainDraws, rotation \in RotationInputs :
        LET hex1 == with_rotation(create_random(1, draws[1]), rotation)
            after == add_hexagon(hexagons, hex_connections, hex1, None, None, None)
        IN  /\ call' = [op |-> "main", random_choice |-> draws]
            /\ hexagons' = after.hexagons
            /\ hex_connections' = after.hex_connections
    /\ outcome' = NoOutcome
    /\ pc' = "main_ring"
    /\ UNCHANGED <<territory_graph, all_territory_ids, attempt, available_territories,
                   selected_supply_centers, coin_flips, random_picks>>

\* hex.py lines 353-406: the next hexagon of the ring, linked to the one
\* before it
MainLink ==
    /\ pc = "main_ring"
    /\ \E rotation \in RotationInputs :
        LET k == Len(hexagons) + 1
            before == hexagons[k - 1]
            hexk == with_rotation(create_random(k, call.random_choice[k]), rotation)
            after == add_hexagon(hexagons, hex_connections, hexk, before.hex_id,
                                 get_side_by_direction(hexk, main_ring_links[k][1]),
                                 get_side_by_direction(before, main_ring_links[k][2]))
        IN  /\ hexagons' = after.hexagons
            /\ hex_connections' = after.hex_connections
            /\ pc' = IF k = 6 THEN "main_close" ELSE "main_ring"
    /\ UNCHANGED <<call, outcome, territory_graph, all_territory_ids, attempt,
                   available_territories, selected_supply_centers, coin_flips, random_picks>>

\* hex.py lines 408-416: the ring is closed by an append to the connection
\* list
MainClose ==
    /\ pc = "main_close"
    /\ hex_connections' =
           Append(hex_connections,
                  <<hexagons[6].hex_id, get_side_by_direction(hexagons[6], 2),
                    hexagons[1].hex_id, get_side_by_direction(hexagons[1], 5)>>)
    /\ pc' = "main_center"
    /\ UNCHANGED <<hexagons, call, outcome, territory_graph, all_territory_ids, attempt,
                   available_territories, selected_supply_centers, coin_flips, random_picks>>

\* hex.py lines 418-452: the center hexagon, its six connections by side
\* number, the extraction, and the return
MainCenter ==
    /\ pc = "main_center"
    /\ \E rotation \in RotationInputs :
        LET center_hex == with_rotation(create_single(7), rotation)
            after == add_hexagon(hexagons, hex_connections, center_hex, None, None, None)
            links == [n \in 1..6 |->
                        LET i == n - 1
                            center_side == i
                            ring_inner_side == (i + 3) % 6
                        IN  <<center_hex.hex_id, center_side,
                              hexagons[n].hex_id, ring_inner_side>>]
        IN  /\ hexagons' = after.hexagons
            /\ hex_connections' = after.hex_connections \o links
            /\ territory_graph' =
                   hex_py_extract_territory_graph(after.hexagons,
                                                  after.hex_connections \o links)
    /\ outcome' = Return("grid")
    /\ pc' = "done"
    /\ UNCHANGED <<call, all_territory_ids, attempt, available_territories,
                   selected_supply_centers, coin_flips, random_picks>>

NextMain == MainStart \/ MainLink \/ MainClose \/ MainCenter

SpecMain == InitGrid /\ [][NextMain]_vars

----------------------------------------------------------------------------
(* Properties of the grid, checked under SpecGrid *)

IsPrefix(s, t) == Len(s) <= Len(t) /\ \A i \in DOMAIN s : s[i] = t[i]

\* The (hexagon id, side) pairs of a connection tuple
SidePairs(connection) ==
    {<<connection[1], connection[2]>>, <<connection[3], connection[4]>>}

\* Every (hexagon id, side) a check may ask about: the identities and sides
\* add_hexagon is offered, and all six sides
AllSidePairs == HexIds \X HexSide

AddHexagonCalled == call.op = "add_hexagon"

\* C1: after any sequence of add_hexagon calls on an empty grid, no
\* (hexagon id, side) pair occurs in two connection tuples, whichever of the
\* two positions of a tuple it occupies.
C1_OneConnectionPerSide ==
    \A i, j \in DOMAIN hex_connections :
        i # j => SidePairs(hex_connections[i]) \cap SidePairs(hex_connections[j]) = {}

\* Two tuples recorded, a hexagon being the new one of the first and the
\* target of the second
C1_Witness ==
    /\ AddHexagonCalled
    /\ \E i, j \in DOMAIN hex_connections :
          /\ i < j
          /\ hex_connections[i][1] = hex_connections[j][3]
          /\ hex_connections[i][1] # hex_connections[i][3]

\* C2: an add_hexagon call with a target and both sides, one of which at least
\* is occupied when the call is made, returns False and leaves the connection
\* list as it was.
C2_OccupiedSideFails ==
    [][ ( /\ call'.op = "add_hexagon"
          /\ call'.connect_to_hex_id # None
          /\ call'.connect_my_side # None
          /\ call'.connect_their_side # None
          /\ \/ is_side_occupied(hex_connections, call'.hexagon.hex_id,
                                 call'.connect_my_side)
             \/ is_side_occupied(hex_connections, call'.connect_to_hex_id,
                                 call'.connect_their_side) )
        => ( /\ outcome' = Return(FALSE)
             /\ hex_connections' = hex_connections ) ]_vars

\* A refused call whose own side was free: the target's side was the occupied one
C2_Witness ==
    /\ AddHexagonCalled
    /\ outcome = Return(FALSE)
    /\ ~ is_side_occupied(hex_connections, call.hexagon.hex_id, call.connect_my_side)
    /\ is_side_occupied(hex_connections, call.connect_to_hex_id, call.connect_their_side)

\* C3: every add_hexagon call appends the given hexagon at the end of the
\* hexagon list, whatever its outcome, and no step of the grid removes or
\* reorders a hexagon or a connection tuple already there.
C3_AppendOnly ==
    [][ /\ call'.op = "add_hexagon" => hexagons' = Append(hexagons, call'.hexagon)
        /\ IsPrefix(hexagons, hexagons')
        /\ IsPrefix(hex_connections, hex_connections') ]_vars

\* A call that ended in the usage error, its hexagon last in a list of several
C3_Witness ==
    /\ AddHexagonCalled
    /\ outcome.kind = "raise"
    /\ Len(hexagons) >= 2
    /\ hexagons[Len(hexagons)] = call.hexagon
    /\ hex_connections # <<>>

\* C4: add_hexagon with a target and a side omitted raises ValueError (it does
\* not return False) and records no connection; without a target it returns
\* True and records no connection.
C4_UsageError ==
    [][ call'.op = "add_hexagon" =>
        /\ ( /\ call'.connect_to_hex_id # None
             /\ (call'.connect_my_side = None \/ call'.connect_their_side = None) )
           => ( /\ outcome'.kind = "raise"
                /\ outcome'.exc = "ValueError"
                /\ hex_connections' = hex_connections )
        /\ call'.connect_to_hex_id = None
           => ( /\ outcome' = Return(TRUE)
                /\ hex_connections' = hex_connections ) ]_vars

\* The usage error raised for a call that gave one of the two sides
C4_Witness ==
    /\ AddHexagonCalled
    /\ call.connect_to_hex_id # None
    /\ (call.connect_my_side = None) # (call.connect_their_side = None)
    /\ outcome = Raise("ValueError", BothSidesMessage)

\* C5: after add_hexagon has connected (hexA, sideA) to (hexB, sideB), both are
\* occupied, and is_side_occupied answers for every other (hexagon, side) as
\* it did before the call.
C5_OccupancyFrame ==
    [][ ( /\ call'.op = "add_hexagon"
          /\ call'.connect_to_hex_id # None
          /\ outcome' = Return(TRUE) )
        => LET sideA == <<call'.hexagon.hex_id, call'.connect_my_side>>
               sideB == <<call'.connect_to_hex_id, call'.connect_their_side>>
           IN  /\ is_side_occupied(hex_connections', sideA[1], sideA[2])
               /\ is_side_occupied(hex_connections', sideB[1], sideB[2])
               /\ \A p \in AllSidePairs \ {sideA, sideB} :
                     is_side_occupied(hex_connections', p[1], p[2])
                        = is_side_occupied(hex_connections, p[1], p[2]) ]_vars

\* A connection made while another one was already recorded
C5_Witness ==
    /\ AddHexagonCalled
    /\ call.connect_to_hex_id # None
    /\ outcome = Return(TRUE)
    /\ Len(hex_connections) >= 2
    /\ call.connect_my_side # call.connect_their_side

----------------------------------------------------------------------------
(* Properties of the distance-constrained selector, checked under SpecAlgo *)

AlgoCalled == call.op = "_create_supply_territories_algo"
AlgoReturned == AlgoCalled /\ outcome.kind = "return"
AlgoRaised(exc) == AlgoCalled /\ outcome.kind = "raise" /\ outcome.exc = exc

\* Shortest-path distance at most 2: equal, adjacent, or with a common neighbour
WithinTwo(g, a, b) ==
    \/ a = b
    \/ HasEdge(g, a, b)
    \/ \E c \in Range(g.nodes) : HasEdge(g, a, c) /\ HasEdge(g, c, b)

\* C6: any two entries of a list the selector returns are at distance 3 or
\* more in the extracted graph.
C6_SelectedFarApart ==
    AlgoReturned =>
        \A i, j \in DOMAIN outcome.value :
            i # j => ~ WithinTwo(territory_graph, outcome.value[i], outcome.value[j])

\* Two or more territories returned from a graph that has inter-hexagon edges
C6_Witness ==
    /\ AlgoReturned
    /\ Len(outcome.value) >= 2
    /\ \E e \in territory_graph.edges : e.connection_type = "inter_hexagon"

\* C7: a list the selector returns has exactly num_supply entries, all
\* different and all nodes of the extracted graph.
C7_ExactCount ==
    AlgoReturned =>
        /\ Len(outcome.value) = num_supply
        /\ \A i, j \in DOMAIN outcome.value : i # j => outcome.value[i] # outcome.value[j]
        /\ Range(outcome.value) \subseteq Range(territory_graph.nodes)

\* A list returned by a later attempt, after a shorter one was discarded
C7_Witness ==
    /\ AlgoReturned
    /\ attempt >= 1
    /\ num_supply >= 2
    /\ random_picks > num_supply

\* C8: the selector makes at most 5 attempts, each begun with nothing selected
\* and every node available; an attempt that is not returned from has ended
\* with the available set empty and fewer than num_supply selected, and so
\* have all 5 when RuntimeError is raised.
C8_BoundedAttempts ==
    /\ attempt \in {None} \cup 0..4
    /\ (pc = "while" /\ selected_supply_centers = <<>>)
          => available_territories = Range(all_territory_ids)
    /\ (pc = "for" /\ attempt # None)
          => /\ available_territories = {}
             /\ Len(selected_supply_centers) < num_supply
    /\ AlgoRaised("RuntimeError")
          => /\ attempt = 4
             /\ available_territories = {}
             /\ Len(selected_supply_centers) < num_supply

\* C9: the RuntimeError of an exhausted selector reports num_supply and the
\* number of nodes of the graph.
C9_ReportsCountAndNodes ==
    AlgoRaised("RuntimeError") =>
        /\ "num_supply" \in DOMAIN outcome.args
        /\ outcome.args.num_supply = num_supply
        /\ "territories" \in DOMAIN outcome.args
        /\ outcome.args.territories = Len(all_territory_ids)

\* C10 as stated: a count larger than the number of territories ends in
\* ValueError before any attempt and before any random choice at all.
C10_Original ==
    (AlgoCalled /\ num_supply > TotalTerritories(hexagons, 1)) =>
        /\ AlgoRaised("ValueError")
        /\ pc = "done"
        /\ attempt = None
        /\ random_picks = 0
        /\ coin_flips = 0

\* C10, amended: a count larger than the number of territories ends in
\* ValueError, which reports the count and the number of territories, before
\* any attempt and before any territory is picked at random, and the call is
\* over; graph extraction has run by then and has flipped at most one coin
\* for each connection of the grid.
C10_CountTooLarge ==
    (AlgoCalled /\ num_supply > TotalTerritories(hexagons, 1)) =>
        /\ outcome = Raise("ValueError",
                           [num_supply |-> num_supply,
                            territories |-> TotalTerritories(hexagons, 1)])
        /\ pc = "done"
        /\ attempt = None
        /\ random_picks = 0
        /\ selected_supply_centers = <<>>
        /\ coin_flips <= Len(hex_connections)

\* ValueError raised after extraction has flipped a coin
C10_Witness ==
    /\ AlgoRaised("ValueError")
    /\ num_supply > TotalTerritories(hexagons, 1)
    /\ coin_flips >= 1

----------------------------------------------------------------------------
(* Properties of create_supply_territories, checked under SpecSupply *)

SupplyCalled(mode) ==
    call.op = "create_supply_territories" /\ call.supply_mode = mode

\* C11: the oneperhex mode asked for a count other than the number of
\* hexagons of the grid ends in ValueError, with no random draw made.
C11_OnePerHexCountChecked ==
    (SupplyCalled("oneperhex") /\ call.num_supply # Len(hexagons)) =>
        /\ outcome.kind = "raise"
        /\ outcome.exc = "ValueError"
        /\ random_picks = 0

\* C12: the oneperhex mode asked for as many as the grid has hexagons returns
\* a list of that length whose i-th entry names a territory of the i-th
\* hexagon.
C12_OnePerHexagon ==
    (SupplyCalled("oneperhex") /\ call.num_supply = Len(hexagons)) =>
        /\ outcome.kind = "return"
        /\ Len(outcome.value) = call.num_supply
        /\ \A i \in DOMAIN outcome.value :
              \E k \in DOMAIN hexagons[i].territories :
                  outcome.value[i] = str(hexagons[i].territories[k].territory_id)

----------------------------------------------------------------------------
(* Properties of graph extraction, checked under SpecExtract *)

Extracted == call.op = "extract_territory_graph"

\* <<node name, hexagon tag>> of every territory of every hexagon of the grid
TerritoryTags ==
    UNION {{<<str(hexagons[i].territories[k].territory_id), str(hexagons[i].hex_id)>> :
               k \in DOMAIN hexagons[i].territories} : i \in DOMAIN hexagons}

\* The node pairs the hexagons record as internally adjacent
InternalPairs ==
    UNION {{{str(hexagons[i].internal_edges[k][1].territory_id),
             str(hexagons[i].internal_edges[k][2].territory_id)} :
               k \in DOMAIN hexagons[i].internal_edges} : i \in DOMAIN hexagons}

\* C13: the graph extracted from a grid without connections has the
\* territories of all hexagons as its nodes, each once and tagged with its
\* hexagon, and the recorded internal pairs as its edges, all tagged
\* internal; a lone triple gives a triangle, a lone single one node and no edge.
C13_UnconnectedGrid ==
    (Extracted /\ hex_connections = <<>>) =>
        /\ Range(territory_graph.nodes) = {p[1] : p \in TerritoryTags}
        /\ Len(territory_graph.nodes) = TotalTerritories(hexagons, 1)
        /\ \A p \in TerritoryTags : territory_graph.hexagon_id[p[1]] = p[2]
        /\ territory_graph.edges =
              {[ends |-> x, connection_type |-> "internal"] : x \in InternalPairs}
        /\ hexagons = <<create_triple(1)>> =>
              /\ Len(territory_graph.nodes) = 3
              /\ Cardinality(territory_graph.edges) = 3
              /\ \A u, v \in Range(territory_graph.nodes) :
                    u # v => HasEdge(territory_graph, u, v)
        /\ hexagons = <<create_single(1)>> =>
              /\ Len(territory_graph.nodes) = 1
              /\ territory_graph.edges = {}

\* The graph of two unconnected hexagons, the second of which has internal edges
C13_Witness ==
    /\ Extracted
    /\ hex_connections = <<>>
    /\ Len(hexagons) = 2
    /\ hexagons[2].internal_edges # <<>>
    /\ Cardinality(territory_graph.edges) >= 4

\* An edge joins a territory of hexagon hexA touching sideA to a territory of
\* hexagon hexB touching sideB, both hexagons of the grid
JoinsSides(e, connection) ==
    \E i, j \in DOMAIN hexagons :
        /\ hexagons[i].hex_id = connection[1]
        /\ hexagons[j].hex_id = connection[3]
        /\ \E a \in DOMAIN hexagons[i].territories, b \in DOMAIN hexagons[j].territories :
              /\ connection[2] \in hexagons[i].territories[a].touching_sides
              /\ connection[4] \in hexagons[j].territories[b].touching_sides
              /\ e.ends = {str(hexagons[i].territories[a].territory_id),
                           str(hexagons[j].territories[b].territory_id)}

\* C14: every inter_hexagon edge of an extracted graph joins, for some
\* connection tuple (hexA, sideA, hexB, sideB) of the grid, a territory of
\* hexA touching sideA to a territory of hexB touching sideB; the hexagons
\* its two ends are tagged with are the two hexagons of a connection tuple.
C14_InterEdgesFollowConnections ==
    Extracted =>
        \A e \in territory_graph.edges :
            e.connection_type = "inter_hexagon" =>
                /\ \E k \in DOMAIN hex_connections : JoinsSides(e, hex_connections[k])
                /\ \E k \in DOMAIN hex_connections :
                      {territory_graph.hexagon_id[u] : u \in e.ends}
                          = {str(hex_connections[k][1]), str(hex_connections[k][3])}

\* Two hexagons of several territories each, linked, and their graph extracted
C14_Witness ==
    /\ Extracted
    /\ Len(hexagons) = 2
    /\ Len(hexagons[1].territories) >= 3
    /\ Len(hexagons[2].territories) >= 3
    /\ \E k \in DOMAIN hex_connections : hex_connections[k][1] # hex_connections[k][3]
    /\ \E e \in territory_graph.edges : e.connection_type = "inter_hexagon"

\* The node pairs the inter-hexagon pass handed to add_edge, the coins having
\* fallen as the call record says
ProducedInterPairs ==
    UNION {{{p[1], p[2]} :
               p \in Range(connection_pairs(hexagons, hex_connections[k],
                                            call.random_choice[k]).pairs)} :
           k \in {j \in DOMAIN hex_connections :
                     /\ get_hexagon_by_id(hexagons, hex_connections[j][1]).hex_id # None
                     /\ get_hexagon_by_id(hexagons, hex_connections[j][3]).hex_id # None}}

\* C15 as stated: every production of an edge is kept with its own tag, so a
\* pair produced both as an internal pair and from a connection has an
\* internal edge and an inter_hexagon edge.
C15_Original ==
    Extracted =>
        /\ \A x \in InternalPairs :
              [ends |-> x, connection_type |-> "internal"] \in territory_graph.edges
        /\ \A x \in ProducedInterPairs :
              [ends |-> x, connection_type |-> "inter_hexagon"] \in territory_graph.edges

\* C15, amended: the extracted graph has one edge for each node pair produced,
\* however often it was produced; the edge is tagged inter_hexagon if a
\* connection produced the pair, and internal otherwise.
C15_OneEdgePerPair ==
    Extracted =>
        /\ \A e1, e2 \in territory_graph.edges : e1.ends = e2.ends => e1 = e2
        /\ {e.ends : e \in territory_graph.edges} = InternalPairs \cup ProducedInterPairs
        /\ \A e \in territory_graph.edges :
              e.connection_type = IF e.ends \in ProducedInterPairs
                                  THEN "inter_hexagon" ELSE "internal"

\* A pair produced twice: recorded as internal and produced by a connection
C15_Witness ==
    /\ Extracted
    /\ InternalPairs \cap ProducedInterPairs # {}

----------------------------------------------------------------------------
(* Properties of a hexagon, checked under SpecHexagon *)

\* C16: get_side_by_direction of a hexagon with rotation in 0..5 answers the
\* side in 0..5 that differs from direction + rotation by a multiple of 6,
\* and for the rotation the hexagon has, the six directions go one-to-one
\* onto the six sides.
C16_RotationArithmetic ==
    /\ call.op = "get_side_by_direction" =>
          LET sum == call.direction + hexagons[call.hexagon].rotation
          IN  /\ outcome.value \in HexSide
              /\ outcome.value = IF sum < 6 THEN sum ELSE sum - 6
    /\ \A i \in DOMAIN hexagons :
          /\ {get_side_by_direction(hexagons[i], d) : d \in HexDirection} = HexSide
          /\ \A d1, d2 \in HexDirection :
                get_side_by_direction(hexagons[i], d1) = get_side_by_direction(hexagons[i], d2)
                    => d1 = d2

\* A side asked of a rotated hexagon, direction + rotation passing 5
C16_Witness ==
    /\ call.op = "get_side_by_direction"
    /\ hexagons[call.hexagon].rotation = 4
    /\ call.direction = 3
    /\ outcome = Return(1)

\* C17: in every hexagon the factory returns, the touching-side sets of the
\* territories are pairwise disjoint and together are {0,...,5}, and every
\* internal edge joins two different territories of that hexagon.
C17_SidePartition ==
    \A i \in DOMAIN hexagons :
        LET h == hexagons[i]
        IN  /\ \A a, b \in DOMAIN h.territories :
                  a # b => h.territories[a].touching_sides
                               \cap h.territories[b].touching_sides = {}
            /\ UNION {h.territories[a].touching_sides : a \in DOMAIN h.territories} = HexSide
            /\ \A k \in DOMAIN h.internal_edges :
                  /\ h.internal_edges[k][1] # h.internal_edges[k][2]
                  /\ h.internal_edges[k][1] \in Range(h.territories)
                  /\ h.internal_edges[k][2] \in Range(h.territories)

\* A hexagon of five territories that create_random delegated to create_five
C17_Witness ==
    /\ call.op = "create"
    /\ call.name = "random"
    /\ Len(hexagons) = 1
    /\ Len(hexagons[1].territories) = 5
    /\ Len(hexagons[1].internal_edges) = 7

----------------------------------------------------------------------------
(* Properties of create_hexagon_ring, checked under SpecRing *)

RingReturned == call.op = "create_hexagon_ring" /\ outcome = Return("grid")

\* The two hexagons a connection tuple names
Linked(connection) == {connection[1], connection[3]}

\* C18: the grid create_hexagon_ring returns has 7 hexagons and 12 connection
\* tuples: 5 that link each ring hexagon to the one before it, 1 that links
\* the sixth to the first, and 6 that link the center to each ring hexagon.
C18_RingGrid ==
    RingReturned =>
        /\ Len(hexagons) = 7
        /\ Len(hex_connections) = 12
        /\ \A k \in 1..5 :
              Linked(hex_connections[k]) = {hexagons[k + 1].hex_id, hexagons[k].hex_id}
        /\ Linked(hex_connections[6]) = {hexagons[6].hex_id, hexagons[1].hex_id}
        /\ \A i \in 1..6 :
              Linked(hex_connections[6 + i]) = {hexagons[7].hex_id, hexagons[i].hex_id}
        /\ \A i, j \in 1..7 : i # j => hexagons[i].hex_id # hexagons[j].hex_id

\* A returned ring of rotated hexagons of different archetypes around a
\* center that create_random made
C18_Witness ==
    /\ RingReturned
    /\ call.center_type = "random"
    /\ call.archetype_filter = "all"
    /\ hexagons[7].rotation = 1
    /\ hexagons[2].rotation = 1
    /\ hexagons[3].rotation = 0
    /\ Len(hexagons[1].territories) # Len(hexagons[2].territories)

----------------------------------------------------------------------------
(* A property of extraction and supply selection, checked under SpecSupply *)

\* C19: a step of graph extraction or of supply selection, whatever the mode,
\* leaves the hexagon list, every hexagon in it and the connection list as
\* they were.
C19_GridUnchanged ==
    [][ call'.op \in {"extract_territory_graph", "create_supply_territories",
                      "_create_supply_territories_algo"}
        => /\ hexagons' = hexagons
           /\ hex_connections' = hex_connections ]_vars

\* The selector has extracted the graph of a linked grid, flipped a coin for
\* it, and returned two territories
C19_Witness ==
    /\ AlgoReturned
    /\ coin_flips >= 1
    /\ Len(outcome.value) >= 2
    /\ Len(hexagons) = 2
    /\ hex_connections # <<>>

----------------------------------------------------------------------------
(* The branches of the inter-hexagon pass, checked under SpecExtract *)

\* The territories of the hexagon named hex_id that touch side
TouchingSet(hex_id, side) ==
    {t \in Range(get_hexagon_by_id(hexagons, hex_id).territories) : side \in t.touching_sides}

\* The connection tuples both of whose hexagons the grid holds
FoundConnections ==
    {k \in DOMAIN hex_connections :
        /\ get_hexagon_by_id(hexagons, hex_connections[k][1]).hex_id # None
        /\ get_hexagon_by_id(hexagons, hex_connections[k][3]).hex_id # None}

\* C20: for a connection with exactly one territory on the connected side of
\* at least one end, the pairs the pass makes are every territory of one end
\* with every territory of the other, each once and nothing else, and each is
\* an inter_hexagon edge of the graph.
C20_OneMemberAllToAll ==
    Extracted =>
        \A k \in FoundConnections :
            LET A == TouchingSet(hex_connections[k][1], hex_connections[k][2])
                B == TouchingSet(hex_connections[k][3], hex_connections[k][4])
                made == connection_pairs(hexagons, hex_connections[k],
                                         call.random_choice[k]).pairs
            IN  (Cardinality(A) = 1 \/ Cardinality(B) = 1) =>
                    /\ Range(made) = {<<str(a.territory_id), str(b.territory_id)>> :
                                         a \in A, b \in B}
                    /\ Len(made) = Cardinality(A) * Cardinality(B)
                    /\ \A j \in DOMAIN made :
                          [ends |-> {made[j][1], made[j][2]},
                           connection_type |-> "inter_hexagon"] \in territory_graph.edges

\* One territory on one end and two on the other, in two different hexagons
C20_Witness ==
    /\ Extracted
    /\ \E k \in FoundConnections :
          /\ hex_connections[k][1] # hex_connections[k][3]
          /\ Cardinality(TouchingSet(hex_connections[k][1], hex_connections[k][2])) = 1
          /\ Cardinality(TouchingSet(hex_connections[k][3], hex_connections[k][4])) = 2
          /\ Cardinality({e \in territory_graph.edges :
                             e.connection_type = "inter_hexagon"}) = 2

\* Of the territories S touching side: those that also touch the side before
\* it, and those that do not but touch the side after it
StartOf(S, side) == {t \in S : ((side + 5) % 6) \in t.touching_sides}
EndOf(S, side) ==
    {t \in S : ((side + 5) % 6) \notin t.touching_sides /\ ((side + 1) % 6) \in t.touching_sides}

\* The node-name pairs of every territory of S with every territory of T
NamePairs(S, T) == {<<str(a.territory_id), str(b.territory_id)>> : a \in S, b \in T}

EndA(k) == TouchingSet(hex_connections[k][1], hex_connections[k][2])
EndB(k) == TouchingSet(hex_connections[k][3], hex_connections[k][4])

\* Two territories on each end, and a start and an end among each two
CleanTwoVersusTwo(k) ==
    /\ Cardinality(EndA(k)) = 2
    /\ Cardinality(EndB(k)) = 2
    /\ StartOf(EndA(k), hex_connections[k][2]) # {}
    /\ EndOf(EndA(k), hex_connections[k][2]) # {}
    /\ StartOf(EndB(k), hex_connections[k][4]) # {}
    /\ EndOf(EndB(k), hex_connections[k][4]) # {}

\* The pairs the pass made for connection k
MadePairs(k) ==
    connection_pairs(hexagons, hex_connections[k], call.random_choice[k]).pairs

\* C21: at a connection with two territories on each end and all four
\* positional buckets non-empty, the pairs made are three: start of A with
\* end of B, end of A with start of B, and start with start if the coin gave
\* True, end with end if it gave False; each is an inter_hexagon edge.
C21_TwoVersusTwo ==
    Extracted =>
        \A k \in FoundConnections :
            CleanTwoVersusTwo(k) =>
                LET sideA == hex_connections[k][2]
                    sideB == hex_connections[k][4]
                    startA == StartOf(EndA(k), sideA)
                    endA == EndOf(EndA(k), sideA)
                    startB == StartOf(EndB(k), sideB)
                    endB == EndOf(EndB(k), sideB)
                IN  /\ Len(MadePairs(k)) = 3
                    /\ Range(MadePairs(k)) =
                          NamePairs(startA, endB) \cup NamePairs(endA, startB)
                          \cup (IF call.random_choice[k] THEN NamePairs(startA, startB)
                                                          ELSE NamePairs(endA, endB))
                    /\ \A j \in DOMAIN MadePairs(k) :
                          [ends |-> {MadePairs(k)[j][1], MadePairs(k)[j][2]},
                           connection_type |-> "inter_hexagon"] \in territory_graph.edges

\* Two hexagons joined at such a boundary, the coin having given True
C21_Witness ==
    /\ Extracted
    /\ coin_flips = 1
    /\ \E k \in FoundConnections :
          /\ CleanTwoVersusTwo(k)
          /\ hex_connections[k][1] # hex_connections[k][3]
          /\ call.random_choice[k]
          /\ Cardinality({e \in territory_graph.edges :
                             e.connection_type = "inter_hexagon"}) = 3

\* C22: at a connection that has neither one territory on an end nor two on
\* each end with all four positional buckets non-empty, the pairs made are
\* every territory of one end with every territory of the other.
C22_FallbackAllToAll ==
    Extracted =>
        \A k \in FoundConnections :
            ( /\ Cardinality(EndA(k)) # 1
              /\ Cardinality(EndB(k)) # 1
              /\ ~ CleanTwoVersusTwo(k) )
            => /\ Range(MadePairs(k)) = NamePairs(EndA(k), EndB(k))
               /\ Len(MadePairs(k)) = Cardinality(EndA(k)) * Cardinality(EndB(k))

----------------------------------------------------------------------------
(* Two extractions from one grid, checked under SpecExtractTwice *)

\* The two diagonal node pairs of every boundary of two against two with all
\* four buckets non-empty
DiagonalPairs ==
    UNION {LET sideA == hex_connections[k][2]
               sideB == hex_connections[k][4]
           IN  {{p[1], p[2]} :
                   p \in NamePairs(StartOf(EndA(k), sideA), StartOf(EndB(k), sideB))
                         \cup NamePairs(EndOf(EndA(k), sideA), EndOf(EndB(k), sideB))} :
           k \in {j \in FoundConnections : CleanTwoVersusTwo(j)}}

EdgesTagged(g, t) == {e \in g.edges : e.connection_type = t}

\* C23 as stated: of two extractions from one grid, the second has the nodes,
\* the tags and the internal edges of the first; its inter_hexagon edges
\* differ from the first's only at diagonal pairs; it flips one coin for each
\* boundary of two against two with its four buckets non-empty; and with the
\* same coin outcomes it is the same graph.
C23_Original ==
    [][ (Extracted /\ call'.op = "extract_territory_graph") =>
        /\ territory_graph'.nodes = territory_graph.nodes
        /\ territory_graph'.hexagon_id = territory_graph.hexagon_id
        /\ EdgesTagged(territory_graph', "internal") = EdgesTagged(territory_graph, "internal")
        /\ \A e \in (EdgesTagged(territory_graph', "inter_hexagon")
                         \ EdgesTagged(territory_graph, "inter_hexagon"))
                   \cup (EdgesTagged(territory_graph, "inter_hexagon")
                         \ EdgesTagged(territory_graph', "inter_hexagon")) :
              e.ends \in DiagonalPairs
        /\ coin_flips' = Cardinality({k \in FoundConnections : CleanTwoVersusTwo(k)})
        /\ call'.random_choice = call.random_choice => territory_graph' = territory_graph
      ]_vars

\* C23, amended: of two extractions from one grid, the second has the nodes
\* and the tags of the first; its edges, internal ones included, differ from
\* the first's only at diagonal pairs; it flips one coin for each boundary of
\* two against two with its four buckets non-empty; and with the same coin
\* outcomes it is the same graph.
C23_SameButDiagonals ==
    [][ (Extracted /\ call'.op = "extract_territory_graph") =>
        /\ territory_graph'.nodes = territory_graph.nodes
        /\ territory_graph'.hexagon_id = territory_graph.hexagon_id
        /\ \A e \in (territory_graph'.edges \ territory_graph.edges)
                   \cup (territory_graph.edges \ territory_graph'.edges) :
              e.ends \in DiagonalPairs
        /\ coin_flips' = Cardinality({k \in FoundConnections : CleanTwoVersusTwo(k)})
        /\ call'.random_choice = call.random_choice => territory_graph' = territory_graph
      ]_vars

\* The graph of a second extraction, whose coin fell the other way than one
\* that gives True
C23_Witness ==
    /\ Extracted
    /\ coin_flips = 1
    /\ Len(hexagons) = 2
    /\ \E k \in FoundConnections :
          /\ CleanTwoVersusTwo(k)
          /\ hex_connections[k][1] # hex_connections[k][3]
          /\ ~ call.random_choice[k]

----------------------------------------------------------------------------
(* The hexagons named by the connections, checked under SpecGrid *)

\* C24: both hexagon ids of every connection tuple are ids of hexagons of
\* the grid.
C24_ConnectionsNameGridHexagons ==
    \A k \in 1..Len(hex_connections) :
        /\ get_hexagon_by_id(hexagons, hex_connections[k][1]) # NoHexagon
        /\ get_hexagon_by_id(hexagons, hex_connections[k][3]) # NoHexagon

----------------------------------------------------------------------------
(* The sides of a ring under every rotation, checked under SpecRingRotations *)

\* The sides of a hexagon that occur in the connection list
OccupiedSides(hex_id) == {s \in HexSide : is_side_occupied(hex_connections, hex_id, s)}

\* C25: whatever the rotations of its seven hexagons, the connection list
\* create_hexagon_ring assembles has no (hexagon id, side) pair twice, in
\* one tuple or in two; in the list it returns every ring hexagon has three
\* sides occupied and the center six, and each center link joins the side of
\* some direction d of a ring hexagon to the side of direction (d + 3) mod 6
\* of the center.
C25_RingSidesOnce ==
    call.op = "create_hexagon_ring" =>
        /\ \A i \in DOMAIN hex_connections :
              /\ Cardinality(SidePairs(hex_connections[i])) = 2
              /\ \A j \in DOMAIN hex_connections :
                    i # j => SidePairs(hex_connections[i]) \cap SidePairs(hex_connections[j]) = {}
        /\ RingReturned =>
              /\ \A i \in 1..6 : Cardinality(OccupiedSides(hexagons[i].hex_id)) = 3
              /\ Cardinality(OccupiedSides(hexagons[7].hex_id)) = 6
              /\ \A i \in 1..6 : \E d \in HexDirection :
                    hex_connections[6 + i] =
                        <<hexagons[7].hex_id, (((d + 3) % 6) + hexagons[7].rotation) % 6,
                          hexagons[i].hex_id, (d + hexagons[i].rotation) % 6>>

\* A returned ring whose hexagons are turned differently, two of them by
\* rotations that wrap around
C25_Witness ==
    /\ RingReturned
    /\ hexagons[1].rotation = 5
    /\ hexagons[2].rotation = 0
    /\ hexagons[4].rotation = 2
    /\ hexagons[6].rotation = 4
    /\ hexagons[7].rotation = 3

----------------------------------------------------------------------------
(* The sides of the ring of hex.py, checked under SpecMain *)

\* C26: whatever the rotations of its seven hexagons, the connection list
\* main of hex.py assembles has no (hexagon id, side) pair twice, in one
\* tuple or in two.
C26_MainSidesOnce ==
    call.op = "main" =>
        \A i, j \in DOMAIN hex_connections :
            /\ Cardinality(SidePairs(hex_connections[i])) = 2
            /\ i # j => SidePairs(hex_connections[i]) \cap SidePairs(hex_connections[j]) = {}

----------------------------------------------------------------------------
(* Termination of the selector, checked under SpecAlgoFair *)

\* A step that is one iteration of the while loop
PickStep == pc = "while" /\ random_picks' = random_picks + 1

\* C27: every call of the selector ends, with a list returned or an
\* exception raised; an iteration of the while loop picks an available node
\* and leaves the available set a proper subset of what it was, without the
\* picked node; an attempt never has more picks than the graph has nodes; and
\* the attempts are numbered 0 to 4.
C27_Terminates ==
    /\ AlgoCalled ~> (pc = "done" /\ outcome.kind \in {"return", "raise"})
    /\ [][PickStep =>
            LET selected_territory == selected_supply_centers'[Len(selected_supply_centers')]
            IN  /\ selected_territory \in available_territories
                /\ selected_territory \notin available_territories'
                /\ available_territories' \subseteq available_territories
                /\ available_territories' # available_territories]_vars
    /\ [](Len(selected_supply_centers) <= Len(all_territory_ids))
    /\ [](attempt = None \/ attempt \in 0..(max_retries - 1))

\* A call that ended with RuntimeError after five attempts, each of which
\* picked until no node was available
C27_Witness ==
    /\ AlgoRaised("RuntimeError")
    /\ attempt = max_retries - 1
    /\ num_supply > 0
    /\ random_picks >= 2 * max_retries
    /\ available_territories = {}

----------------------------------------------------------------------------
(* Extraction from grids of side-partitioned hexagons, checked under        *)
(* SpecExtract                                                              *)

\* Every side is touched by exactly one territory of the hexagon
SidePartitioned(hexagon) ==
    \A side \in HexSide :
        Cardinality({a \in DOMAIN hexagon.territories :
                        side \in hexagon.territories[a].touching_sides}) = 1

\* C28: in a grid of hexagons each of whose sides is touched by exactly one
\* territory, with every connection naming two hexagons of the grid, each
\* connection makes exactly one pair, the one territory touching the first
\* side with the one territory touching the second; no coin is flipped, and
\* the extracted graph is the same whatever the coins would have given.
C28_OnePairPerConnection ==
    (/\ Extracted
     /\ \A i \in DOMAIN hexagons : SidePartitioned(hexagons[i])
     /\ FoundConnections = DOMAIN hex_connections) =>
        /\ \A k \in DOMAIN hex_connections :
              /\ Cardinality(EndA(k)) = 1
              /\ Cardinality(EndB(k)) = 1
              /\ \A a \in EndA(k), b \in EndB(k) :
                    /\ MadePairs(k) = <<<<str(a.territory_id), str(b.territory_id)>>>>
                    /\ [ends |-> {str(a.territory_id), str(b.territory_id)},
                         connection_type |-> "inter_hexagon"] \in territory_graph.edges
        /\ coin_flips = 0
        /\ \A coins \in CoinSeqs(hex_connections) :
              extract_territory_graph(hexagons, hex_connections, coins).graph = territory_graph

\* The graph of two linked hexagons of different archetypes, one of them
\* create_five's, each side of each touched by one territory
C28_Witness ==
    /\ Extracted
    /\ Len(hexagons) = 2
    /\ \A i \in DOMAIN hexagons : SidePartitioned(hexagons[i])
    /\ Len(hexagons[1].territories) = 5
    /\ Len(hexagons[2].territories) = 3
    /\ Len(hex_connections) = 1
    /\ FoundConnections = DOMAIN hex_connections
    /\ hex_connections[1][1] # hex_connections[1][3]

====
